---- MODULE Spec2Model ----
(***************************************************************************)
(* Model of the prison geofencing service (geofencing_api.py): the zone    *)
(* set built by PrisonGeofencing(prisons_file, buffer_meters), the global  *)
(* PRISONS_DATA set by initialize_api, and the Flask request handlers.     *)
(*                                                                         *)
(* Coordinates live on a grid.  A geographic (EPSG:4326) coordinate is an  *)
(* integer number of grid units, UnitsPerDegree of them to the degree; a   *)
(* metric (EPSG:3857) coordinate is an integer number of metres.  Every    *)
(* geometry carries the CRS its numbers are expressed in.  Polygons are    *)
(* axis-aligned rectangles.  shapely's predicates know nothing of a CRS:   *)
(* they compare the plain numbers (Num below).                             *)
(***************************************************************************)
EXTENDS Integers, Sequences, FiniteSets, TLC

VARIABLES PRISONS_DATA, request, response, calls, building, frame, client, extractor

vars == <<PRISONS_DATA, request, response, calls, building, frame, client, extractor>>

(***************************************************************************)
(* Bounds of the model.                                                    *)
(***************************************************************************)
\* most rows in one zone file
MaxZones == 2
\* most entries in the 'locations' array of one batch request
MaxBatch == 3

(***************************************************************************)
(* Grid and coordinate reference systems.                                  *)
(***************************************************************************)
WGS84 == "EPSG:4326"
MERCATOR == "EPSG:3857"

\* grid units to the degree: one unit is 0.005 degree
UnitsPerDegree == 200
\* to_crs(epsg=3857) near the equator: metres to the grid unit (0.005 degree;
\* a degree is modelled as 100 km)
MetersPerUnit == 500

\* floor and ceiling of a / b, b > 0
FloorDiv(a, b) == a \div b
CeilDiv(a, b) == -((-a) \div b)

\* the plain number of coordinate v of a geometry held in crs, in
\* 1/UnitsPerDegree: what shapely compares
Num(v, crs) == IF crs = MERCATOR THEN v * UnitsPerDegree ELSE v

(***************************************************************************)
(* Geometries: None (a null geometry), an empty polygon, a point, or a     *)
(* rectangle polygon.                                                      *)
(***************************************************************************)
NoGeometry == [kind |-> "None"]
EmptyPolygon(crs) == [kind |-> "Empty", crs |-> crs]
Point(x, y) == [kind |-> "Point", crs |-> WGS84, xmin |-> x, ymin |-> y, xmax |-> x, ymax |-> y]
Polygon(crs, x0, y0, x1, y1) ==
    [kind |-> "Polygon", crs |-> crs, xmin |-> x0, ymin |-> y0, xmax |-> x1, ymax |-> y1]

HasCoords(g) == g.kind \in {"Point", "Polygon"}

\* GeoSeries.to_crs on one geometry.  Towards geographic coordinates the
\* bounds of a polygon are rounded outwards to the grid, which keeps the
\* containment of every grid point exact.
to_crs_geometry(g, crs) ==
    IF ~HasCoords(g) THEN (IF g.kind = "Empty" THEN EmptyPolygon(crs) ELSE g)
    ELSE IF g.crs = crs THEN g
    ELSE IF crs = MERCATOR
         THEN [g EXCEPT !.crs = crs,
                        !.xmin = @ * MetersPerUnit, !.ymin = @ * MetersPerUnit,
                        !.xmax = @ * MetersPerUnit, !.ymax = @ * MetersPerUnit]
         ELSE [g EXCEPT !.crs = crs,
                        !.xmin = FloorDiv(@, MetersPerUnit), !.ymin = FloorDiv(@, MetersPerUnit),
                        !.xmax = CeilDiv(@, MetersPerUnit), !.ymax = CeilDiv(@, MetersPerUnit)]

\* shapely's geometry.buffer(d): d < 0 erodes a polygon (to the empty polygon
\* when nothing is left), d > 0 dilates; a point buffered by d <= 0 is the
\* empty polygon.  A dilated shape is modelled by its bounding rectangle.
buffer(g, d) ==
    IF ~HasCoords(g) THEN g
    ELSE IF g.kind = "Point" /\ d <= 0 THEN EmptyPolygon(g.crs)
    ELSE IF g.xmin - d < g.xmax + d /\ g.ymin - d < g.ymax + d
         THEN Polygon(g.crs, g.xmin - d, g.ymin - d, g.xmax + d, g.ymax + d)
         ELSE EmptyPolygon(g.crs)

\* shapely's zone.contains(point): the point lies in the interior of the
\* zone.  The numbers are compared as they are, whatever CRS each is in.
\* (None has no contains: the AttributeError is raised in FirstZoneContaining.)
contains(zone, point) ==
    CASE zone.kind = "Polygon" ->
            /\ Num(zone.xmin, zone.crs) < Num(point.xmin, point.crs)
            /\ Num(point.xmin, point.crs) < Num(zone.xmax, zone.crs)
            /\ Num(zone.ymin, zone.crs) < Num(point.ymin, point.crs)
            /\ Num(point.ymin, point.crs) < Num(zone.ymax, zone.crs)
      [] zone.kind = "Point" ->
            /\ Num(zone.xmin, zone.crs) = Num(point.xmin, point.crs)
            /\ Num(zone.ymin, zone.crs) = Num(point.ymin, point.crs)
      [] OTHER -> FALSE

(***************************************************************************)
(* Zone files.  A file is the sequence of its rows (osm_id, geometry), in  *)
(* file order, in geographic coordinates.                                  *)
(***************************************************************************)
Row(id, g) == [osm_id |-> id, geometry |-> g]

\* the square (0,0),(0,0.01),(0.01,0.01),(0.01,0): about 1 km a side
SquareRow == Row(1, Polygon(WGS84, 0, 0, 2, 2))
\* a larger polygon (0,0)..(0.02,0.02) that overlaps the square
WideRow == Row(2, Polygon(WGS84, 0, 0, 4, 4))
\* a polygon 0.005 degree (500 m) a side, consumed by a margin of 250 m
SmallRow == Row(4, Polygon(WGS84, 10, 10, 11, 11))
\* a polygon around (-43.47, -22.85), 0.02 degree a side
GericinoRow == Row(3, Polygon(WGS84, -8696, -4572, -8692, -4568))
\* a point-only prison of the sample data: Point(-43.47, -22.85)
SamplePointRow == Row(999001, Point(-8694, -4570))

\* a feature whose geometry is null
NullRow == Row(5, NoGeometry)

RowMenu == {SquareRow, WideRow, SmallRow, GericinoRow, SamplePointRow, NullRow}

RECURSIVE SeqsUpTo(_, _)
\* the sequences over S of length 0..n
SeqsUpTo(S, n) ==
    IF n = 0 THEN {<<>>}
    ELSE LET shorter == SeqsUpTo(S, n - 1)
         IN  shorter \cup {Append(s, x) : s \in {t \in shorter : Len(t) = n - 1}, x \in S}

Range(s) == {s[i] : i \in 1..Len(s)}

\* files of 1..MaxZones rows, no row twice
Files == {f \in SeqsUpTo(RowMenu, MaxZones) : Len(f) >= 1 /\ Cardinality(Range(f)) = Len(f)}

\* the --buffer values tried (default 50)
DefaultBuffer == 50
Buffers == {0, DefaultBuffer, 100, 250, -50}

(***************************************************************************)
(* PrisonGeofencing                                                        *)
(***************************************************************************)
Map(F(_), s) == [i \in 1..Len(s) |-> F(s[i])]

\* GeoDataFrame.to_crs: a copy in which the ACTIVE geometry column is
\* reprojected; every other column, a second geometry column such as 'zone'
\* included, is carried over as it is.
to_crs(gdf, crs) ==
    LET one(row) == [row EXCEPT !.geometry = to_crs_geometry(@, crs)]
    IN  Map(one, gdf)

\* _create_prison_zones, first statement: prisons_metric gets the column
\* 'zone' = geometry.buffer(-buffer_meters), computed in the metric CRS
with_zone_column(prisons_metric, buffer_meters) ==
    LET one(row) == [osm_id |-> row.osm_id, geometry |-> row.geometry,
                     zone |-> buffer(row.geometry, -buffer_meters)]
    IN  Map(one, prisons_metric)

\* _create_prison_zones: the zone column, then prisons_zones =
\* prisons_metric.to_crs(epsg=4326)
_create_prison_zones(prisons_metric, buffer_meters) ==
    LET zoned == with_zone_column(prisons_metric, buffer_meters)
    IN  [prisons_metric |-> zoned, prisons_zones |-> to_crs(zoned, WGS84)]

\* PrisonGeofencing.__init__(prisons_file, buffer_meters): the object built
PrisonGeofencing(prisons_file, buffer_meters) ==
    LET prisons_gdf == prisons_file
        z == _create_prison_zones(to_crs(prisons_gdf, MERCATOR), buffer_meters)
    IN  [prisons_gdf |-> prisons_gdf,
         buffer_meters |-> buffer_meters,
         prisons_metric |-> z.prisons_metric,
         prisons_zones |-> z.prisons_zones]

\* PRISONS_DATA = None
None == [none |-> TRUE]

\* Python's `not PRISONS_DATA`
NotLoaded(data) == data = None

\* Point(longitude, latitude): a plain shapely point in degrees
QueryPoint(latitude, longitude) == Point(longitude, latitude)

Coordinates(latitude, longitude) == [latitude |-> latitude, longitude |-> longitude]

\* an exception leaves the method
Raised(exc) == [raised |-> exc]
IsRaised(r) == "raised" \in DOMAIN r

RECURSIVE FirstZoneContaining(_, _, _)
\* the loop over prisons_zones.iterrows(): the position of the first row from
\* i on whose 'zone' contains the point, 0 when the loop runs out, -1 when it
\* comes to a row whose 'zone' is None (None.contains: AttributeError)
FirstZoneContaining(prisons_zones, i, point) ==
    IF i > Len(prisons_zones) THEN 0
    ELSE IF prisons_zones[i].zone.kind = "None" THEN -1
    ELSE IF contains(prisons_zones[i].zone, point) THEN i
    ELSE FirstZoneContaining(prisons_zones, i + 1, point)

RECURSIVE FirstGeometryContaining(_, _, _)
FirstGeometryContaining(prisons_zones, i, point) ==
    IF i > Len(prisons_zones) THEN 0
    ELSE IF prisons_zones[i].geometry.kind = "None" THEN -1
    ELSE IF contains(prisons_zones[i].geometry, point) THEN i
    ELSE FirstGeometryContaining(prisons_zones, i + 1, point)

\* the two dicts check_location returns
Matched(prison, latitude, longitude) ==
    [inside_prison |-> TRUE, risk_level |-> "HIGH", action |-> "BLOCK",
     prison_info |-> [osm_id |-> prison.osm_id],
     coordinates |-> Coordinates(latitude, longitude)]
Unmatched(latitude, longitude) ==
    [inside_prison |-> FALSE, risk_level |-> "LOW", action |-> "ALLOW",
     prison_info |-> None,
     coordinates |-> Coordinates(latitude, longitude)]

\* a check_location that tests prison.geometry, the raw boundary, where the
\* code tests prison['zone']
check_location_on_raw_geometry(self, latitude, longitude) ==
    LET idx == FirstGeometryContaining(self.prisons_zones, 1, QueryPoint(latitude, longitude))
    IN  IF idx = -1 THEN Raised("AttributeError")
        ELSE IF idx # 0 THEN Matched(self.prisons_zones[idx], latitude, longitude)
        ELSE Unmatched(latitude, longitude)

\* PrisonGeofencing.check_location: iterrows() in row order, the first row
\* whose zone contains the point is returned
PrisonGeofencing_check_location(self, latitude, longitude) ==
    LET idx == FirstZoneContaining(self.prisons_zones, 1, QueryPoint(latitude, longitude))
    IN  IF idx = -1 THEN Raised("AttributeError")
        ELSE IF idx # 0 THEN Matched(self.prisons_zones[idx], latitude, longitude)
        ELSE Unmatched(latitude, longitude)

RECURSIVE batch_check_in_completion_order(_, _)
\* a batch_check whose results come back in the order the calls complete
\* (the last location first), not in the order of the input
batch_check_in_completion_order(self, locations) ==
    IF locations = <<>> THEN [ok |-> TRUE, val |-> <<>>]
    ELSE LET first == PrisonGeofencing_check_location(self, Head(locations)[1], Head(locations)[2])
             rest == batch_check_in_completion_order(self, Tail(locations))
         IN  IF IsRaised(first) THEN [ok |-> FALSE, val |-> <<>>]
             ELSE IF ~rest.ok THEN rest
             ELSE [ok |-> TRUE, val |-> rest.val \o <<first>>]

RECURSIVE PrisonGeofencing_batch_check(_, _)
\* PrisonGeofencing.batch_check: check_location of each (lat, lon), in order
\* (val: the list returned); the exception of a call ends the loop (~ok)
PrisonGeofencing_batch_check(self, locations) ==
    IF locations = <<>> THEN [ok |-> TRUE, val |-> <<>>]
    ELSE LET first == PrisonGeofencing_check_location(self, Head(locations)[1], Head(locations)[2])
             rest == PrisonGeofencing_batch_check(self, Tail(locations))
         IN  IF IsRaised(first) THEN [ok |-> FALSE, val |-> <<>>]
             ELSE IF ~rest.ok THEN rest
             ELSE [ok |-> TRUE, val |-> <<first>> \o rest.val]

RECURSIVE CallsOfBatch(_, _)
\* the calls of check_location that batch_check makes: up to the first that
\* raises
CallsOfBatch(self, locations) ==
    IF locations = <<>> THEN <<>>
    ELSE IF IsRaised(PrisonGeofencing_check_location(self, Head(locations)[1], Head(locations)[2]))
    THEN <<Head(locations)>>
    ELSE <<Head(locations)>> \o CallsOfBatch(self, Tail(locations))

(***************************************************************************)
(* get_nearest_prison: planar distance in the metric CRS to the raw        *)
(* geometries.  Raw geometries and query points lie on the grid, so the    *)
(* metric offsets are whole grid units; squares are taken in grid units.   *)
(***************************************************************************)
Max(a, b) == IF a >= b THEN a ELSE b
Min(S) == CHOOSE x \in S : \A y \in S : x <= y

\* gap between value p and the interval lo..hi, in metres
Gap(p, lo, hi) == Max(0, Max(lo - p, p - hi))

\* squared distance, in grid units, of metric point pm to metric geometry g
Dist2Units(g, pm) ==
    LET dx == Gap(pm.xmin, g.xmin, g.xmax) \div MetersPerUnit
        dy == Gap(pm.ymin, g.ymin, g.ymax) \div MetersPerUnit
    IN  dx * dx + dy * dy

RECURSIVE ISqrtIn(_, _, _)
\* the r in lo..hi with r * r <= n < (r + 1) * (r + 1), by bisection
ISqrtIn(n, lo, hi) ==
    IF lo = hi THEN lo
    ELSE LET mid == (lo + hi + 1) \div 2
         IN  IF mid * mid <= n THEN ISqrtIn(n, mid, hi) ELSE ISqrtIn(n, lo, mid - 1)
\* floor of the square root of n, 0 <= n < 2^31
ISqrt(n) == ISqrtIn(n, 0, 46340)

\* the integer nearest to the square root of n: round(sqrt(n))
RoundSqrt(n) == LET r == ISqrt(n) IN IF n > r * r + r THEN r + 1 ELSE r

\* squared distance of metric point pm to metric geometry g, in grid units
\* rounded up, for a geometry that is off the grid
Dist2UnitsUp(g, pm) ==
    LET dx == CeilDiv(Gap(pm.xmin, g.xmin, g.xmax), MetersPerUnit)
        dy == CeilDiv(Gap(pm.ymin, g.ymin, g.ymax), MetersPerUnit)
    IN  dx * dx + dy * dy

\* a get_nearest_prison that measures the distance to the eroded 'zone'
\* where the code measures it to the raw geometry
nearest_by_zone(self, latitude, longitude, max_distance_km) ==
    LET point_metric == to_crs_geometry(QueryPoint(latitude, longitude), MERCATOR)
        rows == {i \in 1..Len(self.prisons_metric) : HasCoords(self.prisons_metric[i].zone)}
        d2(i) == Dist2UnitsUp(self.prisons_metric[i].zone, point_metric)
        nearest_idx == Min({i \in rows : \A j \in rows : d2(i) <= d2(j)})
        limit == max_distance_km * 1000
    IN  IF ~(-90 * UnitsPerDegree < latitude /\ latitude < 90 * UnitsPerDegree)
           \/ rows = {} \/ max_distance_km < 0 THEN None
        ELSE IF d2(nearest_idx) <= (limit * limit) \div (MetersPerUnit * MetersPerUnit)
        THEN [distance_km |-> RoundSqrt(d2(nearest_idx) * MetersPerUnit * MetersPerUnit),
              distance_meters |-> ISqrt(d2(nearest_idx) * MetersPerUnit * MetersPerUnit),
              prison_info |-> [osm_id |-> self.prisons_gdf[nearest_idx].osm_id]]
        ELSE None

\* the projection is defined for latitudes strictly between the poles only
Projectable(latitude) == -90 * UnitsPerDegree < latitude /\ latitude < 90 * UnitsPerDegree

\* PrisonGeofencing.get_nearest_prison: None, or the nearest row (the first
\* of the rows at the minimum distance: idxmin) and its distance:
\* distance_km = round(min_distance_km, 3), held in thousandths of a km, and
\* distance_meters in whole metres
PrisonGeofencing_get_nearest_prison(self, latitude, longitude, max_distance_km) ==
    LET point_metric == to_crs_geometry(QueryPoint(latitude, longitude), MERCATOR)
        rows == {i \in 1..Len(self.prisons_metric) : HasCoords(self.prisons_metric[i].geometry)}
        d2(i) == Dist2Units(self.prisons_metric[i].geometry, point_metric)
        nearest_idx == Min({i \in rows : \A j \in rows : d2(i) <= d2(j)})
        limit == max_distance_km * 1000
    IN  IF ~Projectable(latitude) \/ rows = {} \/ max_distance_km < 0 THEN None
        ELSE IF d2(nearest_idx) <= (limit * limit) \div (MetersPerUnit * MetersPerUnit)
        THEN [distance_km |-> RoundSqrt(d2(nearest_idx) * MetersPerUnit * MetersPerUnit),
              distance_meters |-> ISqrt(d2(nearest_idx) * MetersPerUnit * MetersPerUnit),
              prison_info |-> [osm_id |-> self.prisons_gdf[nearest_idx].osm_id]]
        ELSE None

(***************************************************************************)
(* JSON request bodies.  A value is a number, a numeric string, some other *)
(* text, null, or absent (the key is not in the object).                   *)
(***************************************************************************)
JNum(n) == [type |-> "number", num |-> n]
JNumStr(n) == [type |-> "numstr", num |-> n]
JText == [type |-> "text"]
JNull == [type |-> "null"]
JAbsent == [type |-> "absent"]

\* a conversion that takes text that is no number for 0
float_or_zero(v) ==
    CASE v.type \in {"number", "numstr"} -> [ok |-> TRUE, val |-> v.num]
      [] v.type = "text" -> [ok |-> TRUE, val |-> 0]
      [] v.type = "null" -> [ok |-> FALSE, exc |-> "TypeError"]
      [] OTHER -> [ok |-> FALSE, exc |-> "KeyError"]

\* Python's float(v): the number, or the exception raised
float(v) ==
    CASE v.type \in {"number", "numstr"} -> [ok |-> TRUE, val |-> v.num]
      [] v.type = "text" -> [ok |-> FALSE, exc |-> "ValueError"]
      [] v.type = "null" -> [ok |-> FALSE, exc |-> "TypeError"]
      [] OTHER -> [ok |-> FALSE, exc |-> "KeyError"]

\* request.json is None: no JSON body
NoBody == [nobody |-> TRUE]

Reply(status, json, checked) == [status |-> status, json |-> json, calls |-> checked]
Error(status, message) == Reply(status, [error |-> message], <<>>)

(***************************************************************************)
(* The Flask endpoints: the reply (status, JSON, and the points handed to  *)
(* PrisonGeofencing.check_location on the way) to a request body, given    *)
(* the value of PRISONS_DATA.                                              *)
(***************************************************************************)
\* an endpoint that, with no data loaded, answers as if no zone matched
NotLoadedAnsweredAsOutside ==
    Reply(200, [inside_prison |-> FALSE, risk_level |-> "LOW", action |-> "ALLOW",
                prison_info |-> None], <<>>)

\* if not PRISONS_DATA: return jsonify({'error': 'Prison data not loaded'}), 500
NotLoadedReply == Error(500, "Prison data not loaded")

\* an exception no handler catches: Flask answers 500
Unhandled == Error(500, "Internal Server Error")

\* a check-location that answers with the result alone, whatever the body
\* carries besides the coordinates
check_location_reply_result_only(data, body) ==
    IF NotLoaded(data) THEN NotLoadedReply
    ELSE IF body = NoBody \/ body.latitude = JAbsent \/ body.longitude = JAbsent
    THEN Error(400, "Missing latitude or longitude")
    ELSE IF ~float(body.latitude).ok \/ ~float(body.longitude).ok
    THEN Error(400, "Invalid coordinates")
    ELSE LET lat == float(body.latitude).val
             lon == float(body.longitude).val
             result == PrisonGeofencing_check_location(data, lat, lon)
         IN  IF IsRaised(result) THEN Reply(500, Unhandled.json, <<<<lat, lon>>>>)
             ELSE Reply(200, result, <<<<lat, lon>>>>)

\* POST /api/v1/check-location
check_location_reply(data, body) ==
    IF NotLoaded(data) THEN NotLoadedReply
    ELSE IF body = NoBody \/ body.latitude = JAbsent \/ body.longitude = JAbsent
    THEN Error(400, "Missing latitude or longitude")
    ELSE IF ~float(body.latitude).ok \/ ~float(body.longitude).ok
    THEN Error(400, "Invalid coordinates")
    ELSE LET lat == float(body.latitude).val
             lon == float(body.longitude).val
             result == PrisonGeofencing_check_location(data, lat, lon)
         IN  IF IsRaised(result) THEN Reply(500, Unhandled.json, <<<<lat, lon>>>>)
             ELSE
             Reply(200,
                   IF body.transaction_id # JAbsent
                   THEN [inside_prison |-> result.inside_prison, risk_level |-> result.risk_level,
                         action |-> result.action, prison_info |-> result.prison_info,
                         coordinates |-> result.coordinates,
                         transaction_id |-> body.transaction_id]
                   ELSE result,
                   <<<<lat, lon>>>>)

\* one entry of 'locations': an object with latitude and longitude, or
\* something that is no object (indexing it raises TypeError)
Entry(lat, lon) == [object |-> TRUE, latitude |-> lat, longitude |-> lon]
NotAnObject == [object |-> FALSE]

\* the body of the try block for one entry: (lat, lon), or an exception
ParseEntry(loc) ==
    IF ~loc.object THEN [ok |-> FALSE, exc |-> "TypeError"]
    ELSE IF ~float(loc.latitude).ok THEN float(loc.latitude)
    ELSE IF ~float(loc.longitude).ok THEN float(loc.longitude)
    ELSE [ok |-> TRUE, val |-> <<float(loc.latitude).val, float(loc.longitude).val>>]

RECURSIVE ParseLocationsSkipping(_)
\* a parsing loop that drops an entry that raises and goes on with the rest
ParseLocationsSkipping(items) ==
    IF items = <<>> THEN [ok |-> TRUE, val |-> <<>>]
    ELSE LET first == ParseEntry(Head(items))
             rest == ParseLocationsSkipping(Tail(items))
         IN  [ok |-> TRUE, val |-> (IF first.ok THEN <<first.val>> ELSE <<>>) \o rest.val]

RECURSIVE ParseLocations(_)
\* the parsing loop: the list of (lat, lon), given up at the first entry
\* that raises ValueError, TypeError or KeyError
ParseLocations(items) ==
    IF items = <<>> THEN [ok |-> TRUE, val |-> <<>>]
    ELSE LET first == ParseEntry(Head(items))
             rest == ParseLocations(Tail(items))
         IN  IF ~first.ok THEN [ok |-> FALSE, val |-> <<>>]
             ELSE IF ~rest.ok THEN rest
             ELSE [ok |-> TRUE, val |-> <<first.val>> \o rest.val]

\* the 'locations' value: absent, null, or a list of entries
Locations(items) == [type |-> "list", items |-> items]

RECURSIVE ParsedBeforeError(_)
\* the (lat, lon) of the entries before the first that raises
ParsedBeforeError(items) ==
    IF items = <<>> \/ ~ParseEntry(Head(items)).ok THEN <<>>
    ELSE <<ParseEntry(Head(items)).val>> \o ParsedBeforeError(Tail(items))

\* a batch-check that checks each entry as soon as it has parsed it
batch_check_reply_checking_while_parsing(data, body) ==
    IF NotLoaded(data) THEN NotLoadedReply
    ELSE IF body = NoBody \/ body.locations = JAbsent
    THEN Error(400, "Missing locations array")
    ELSE IF body.locations = JNull THEN Unhandled
    ELSE LET parsed == ParseLocations(body.locations.items)
             results == PrisonGeofencing_batch_check(data, parsed.val)
         IN  IF ~parsed.ok
             THEN Reply(400, [error |-> "Invalid location format"],
                        CallsOfBatch(data, ParsedBeforeError(body.locations.items)))
             ELSE IF ~results.ok
             THEN Reply(500, Unhandled.json, CallsOfBatch(data, parsed.val))
             ELSE Reply(200, [total |-> Len(results.val), results |-> results.val], parsed.val)

\* POST /api/v1/batch-check
batch_check_reply(data, body) ==
    IF NotLoaded(data) THEN NotLoadedReply
    ELSE IF body = NoBody \/ body.locations = JAbsent
    THEN Error(400, "Missing locations array")
    ELSE IF body.locations = JNull THEN Unhandled
    ELSE LET parsed == ParseLocations(body.locations.items)
             results == PrisonGeofencing_batch_check(data, parsed.val)
         IN  IF ~parsed.ok THEN Error(400, "Invalid location format")
             ELSE IF ~results.ok
             THEN Reply(500, Unhandled.json, CallsOfBatch(data, parsed.val))
             ELSE Reply(200, [total |-> Len(results.val), results |-> results.val], parsed.val)

\* the default of max_distance_km, in km
DefaultMaxDistanceKm == 5

\* a nearest-prison that looks at the body first and at PRISONS_DATA after
nearest_prison_reply_validating_first(data, body) ==
    IF body = NoBody \/ body.latitude = JAbsent \/ body.longitude = JAbsent
    THEN Error(400, "Missing latitude or longitude")
    ELSE LET max_dist == IF body.max_distance_km = JAbsent THEN JNum(DefaultMaxDistanceKm)
                         ELSE body.max_distance_km
         IN  IF ~float(body.latitude).ok \/ ~float(body.longitude).ok \/ ~float(max_dist).ok
             THEN Error(400, "Invalid parameters")
             ELSE IF NotLoaded(data) THEN NotLoadedReply
             ELSE LET result == PrisonGeofencing_get_nearest_prison(
                                    data, float(body.latitude).val, float(body.longitude).val,
                                    float(max_dist).val)
                  IN  IF result # None THEN Reply(200, result, <<>>)
                      ELSE Reply(200, [distance_km |-> None, prison_info |-> None,
                                       message |-> "No prison found"], <<>>)

\* POST /api/v1/nearest-prison
nearest_prison_reply(data, body) ==
    IF NotLoaded(data) THEN NotLoadedReply
    ELSE IF body = NoBody \/ body.latitude = JAbsent \/ body.longitude = JAbsent
    THEN Error(400, "Missing latitude or longitude")
    ELSE LET max_dist == IF body.max_distance_km = JAbsent THEN JNum(DefaultMaxDistanceKm)
                         ELSE body.max_distance_km
         IN  IF ~float(body.latitude).ok \/ ~float(body.longitude).ok \/ ~float(max_dist).ok
             THEN Error(400, "Invalid parameters")
             ELSE LET result == PrisonGeofencing_get_nearest_prison(
                                    data, float(body.latitude).val, float(body.longitude).val,
                                    float(max_dist).val)
                  IN  IF result # None THEN Reply(200, result, <<>>)
                      ELSE Reply(200, [distance_km |-> None, prison_info |-> None,
                                       message |-> "No prison found"], <<>>)

\* the JSON of stats: counts of the rows of gdf, and int(buffer_meters)
stats_json(gdf, buffer_meters) ==
    [total_prisons |-> Len(gdf), buffer_meters |-> buffer_meters]

\* GET /api/v1/stats (the per-attribute counts are left out: rows carry no
\* name, operator or state here)
stats_reply(data) ==
    IF NotLoaded(data) THEN NotLoadedReply
    ELSE Reply(200, stats_json(data.prisons_gdf, data.buffer_meters), <<>>)

\* GET /health
health_check_reply(data) ==
    Reply(200, [status |-> "healthy",
                prisons_loaded |-> IF NotLoaded(data) THEN 0 ELSE Len(data.prisons_gdf)], <<>>)

(***************************************************************************)
(* The requests tried.  Coordinates are in grid units (0.005 degree).      *)
(***************************************************************************)
Deg(d) == d * UnitsPerDegree

\* (latitude, longitude) pairs
Centroid == <<1, 1>>                     \* (0.005, 0.005): centre of the square
Corner == <<0, 0>>                       \* a corner of the square
InWideOnly == <<3, 3>>                   \* (0.015, 0.015): in the wide polygon only
East5km == <<1, 12>>                     \* 5 km east of the square
SamplePoint == <<-4570, -8694>>          \* (-22.85, -43.47), the sample prison
FarAway == <<Deg(60), Deg(60)>>          \* latitude 60, longitude 60
Lat200 == <<Deg(200), Deg(60)>>          \* latitude 200: not a latitude

PointMenu == {Centroid, Corner, InWideOnly, East5km, SamplePoint, FarAway, Lat200}

CheckBody(lat, lon, tx) == [latitude |-> lat, longitude |-> lon, transaction_id |-> tx]

CheckBodies ==
    {CheckBody(JNum(p[1]), JNum(p[2]), JAbsent) : p \in PointMenu}
    \cup {CheckBody(JNum(Centroid[1]), JNum(Centroid[2]), JText),
          NoBody,
          CheckBody(JAbsent, JNum(1), JAbsent),
          CheckBody(JNum(1), JAbsent, JText),
          CheckBody(JText, JNum(1), JAbsent),
          CheckBody(JNum(1), JNull, JAbsent),
          CheckBody(JNumStr(1), JNumStr(1), JAbsent),
          CheckBody(JNum(Corner[1]), JNum(Corner[2]), JNumStr(7)),
          CheckBody(JNum(InWideOnly[1]), JNum(InWideOnly[2]), JNull)}

EntryMenu ==
    {Entry(JNum(Centroid[1]), JNum(Centroid[2])),
     Entry(JNum(Lat200[1]), JNum(Lat200[2])),
     Entry(JText, JNum(1)),
     Entry(JNum(1), JAbsent)}

BatchBodies ==
    {[locations |-> Locations(items)] : items \in SeqsUpTo(EntryMenu, MaxBatch)}
    \cup {NoBody, [locations |-> JAbsent], [locations |-> JNull],
          [locations |-> Locations(<<NotAnObject>>)]}

NearestBody(lat, lon, max) == [latitude |-> lat, longitude |-> lon, max_distance_km |-> max]

NearestBodies ==
    {NearestBody(JNum(p[1]), JNum(p[2]), max) :
        p \in {Centroid, East5km, FarAway, Lat200},
        max \in {JAbsent, JNum(10), JNum(0), JNum(-1)}}
    \cup {NoBody, NearestBody(JAbsent, JNum(1), JAbsent), NearestBody(JNum(1), JNum(1), JText)}

(***************************************************************************)
(* The service.  PRISONS_DATA is the module global.  request is the        *)
(* request being served (NoRequest between requests), response the reply   *)
(* computed for it, calls the points its handler passed to                 *)
(* PrisonGeofencing.check_location.  building is the PrisonGeofencing      *)
(* object a running initialize_api has under construction and frame the    *)
(* position and locals of a handler that runs statement by statement: both *)
(* stay idle here, where initialize_api and each handler run as one step.  *)
(* client is the call of BankingGeofenceClient.validate_transaction_       *)
(* location in progress and extractor that of OSMPrisonExtractor.          *)
(* _execute_overpass_query: programs of their own, idle while the service  *)
(* is looked at.                                                           *)
(***************************************************************************)
NoRequest == [endpoint |-> "none"]
NoResponse == [status |-> 0]
NotBuilding == [stage |-> 0]
NoFrame == [pc |-> "idle"]
NoCall == [pc |-> "idle"]

Init ==
    /\ PRISONS_DATA = None
    /\ request = NoRequest
    /\ response = NoResponse
    /\ calls = <<>>
    /\ building = NotBuilding
    /\ frame = NoFrame
    /\ client = NoCall
    /\ extractor = NoCall

\* a handler that runs zone preparation again on its way, on the rows of
\* prisons_zones
Serve_preparing_zones(endpoint, body, reply) ==
    /\ request = [endpoint |-> "none"]
    /\ request' = [endpoint |-> endpoint, body |-> body]
    /\ response' = [status |-> reply.status, json |-> reply.json]
    /\ calls' = reply.calls
    /\ PRISONS_DATA' = IF NotLoaded(PRISONS_DATA) THEN PRISONS_DATA
                       ELSE [PRISONS_DATA EXCEPT !.prisons_zones =
                               to_crs(with_zone_column(@, PRISONS_DATA.buffer_meters), WGS84)]
    /\ UNCHANGED <<building, frame, client, extractor>>

\* a handler runs on body: the request, its reply and the calls it made.
\* check_location, batch_check and get_nearest_prison only read self, and
\* the handlers only read the global.
Serve(endpoint, body, reply) ==
    /\ request = NoRequest
    /\ request' = [endpoint |-> endpoint, body |-> body]
    /\ response' = [status |-> reply.status, json |-> reply.json]
    /\ calls' = reply.calls
    /\ UNCHANGED <<PRISONS_DATA, building, frame, client, extractor>>

\* initialize_api(prisons_file, buffer_meters): found is FALSE when no file
\* is given and none is found (FileNotFoundError: the global is not assigned)
initialize_api(found, prisons_file, buffer_meters) ==
    /\ request = NoRequest
    /\ PRISONS_DATA' = IF found THEN PrisonGeofencing(prisons_file, buffer_meters)
                       ELSE PRISONS_DATA
    /\ UNCHANGED <<request, response, calls, building, frame, client, extractor>>

health_check == Serve("health", NoBody, health_check_reply(PRISONS_DATA))

check_location ==
    \E body \in CheckBodies :
        Serve("check-location", body, check_location_reply(PRISONS_DATA, body))

batch_check ==
    \E body \in BatchBodies :
        Serve("batch-check", body, batch_check_reply(PRISONS_DATA, body))

nearest_prison ==
    \E body \in NearestBodies :
        Serve("nearest-prison", body, nearest_prison_reply(PRISONS_DATA, body))

stats == Serve("stats", NoBody, stats_reply(PRISONS_DATA))

\* the response is sent and the request context is gone
SendResponse ==
    /\ request # NoRequest
    /\ request' = NoRequest
    /\ response' = NoResponse
    /\ calls' = <<>>
    /\ UNCHANGED <<PRISONS_DATA, building, frame, client, extractor>>

Next ==
    \/ \E found \in BOOLEAN, f \in Files, b \in Buffers : initialize_api(found, f, b)
    \/ health_check
    \/ check_location
    \/ batch_check
    \/ nearest_prison
    \/ stats
    \/ SendResponse

Spec == Init /\ [][Next]_vars

(***************************************************************************)
(* The service with threads (app.run serves each request in a thread of    *)
(* its own): one handler runs statement by statement, each read of the     *)
(* global PRISONS_DATA a step of its own, while initialize_api runs again  *)
(* in another thread.  frame.reads lists the values the handler has read   *)
(* from the global so far.                                                 *)
(***************************************************************************)
ReloadFiles == {<<SquareRow>>, <<WideRow, SquareRow>>}
ReloadBuffers == {0, DefaultBuffer}

ThreadedRequests ==
    {[endpoint |-> "health", body |-> NoBody],
     [endpoint |-> "stats", body |-> NoBody],
     [endpoint |-> "check-location",
      body |-> CheckBody(JNum(Centroid[1]), JNum(Centroid[2]), JAbsent)],
     [endpoint |-> "check-location", body |-> CheckBody(JText, JNum(1), JAbsent)],
     [endpoint |-> "batch-check",
      body |-> [locations |-> Locations(<<Entry(JNum(Centroid[1]), JNum(Centroid[2])),
                                          Entry(JNum(InWideOnly[1]), JNum(InWideOnly[2]))>>)]],
     [endpoint |-> "nearest-prison",
      body |-> NearestBody(JNum(East5km[1]), JNum(East5km[2]), JAbsent)]}

\* what the handler of endpoint answers to body when every read of the
\* global gives data
reply_of(endpoint, data, body) ==
    CASE endpoint = "health" -> health_check_reply(data)
      [] endpoint = "check-location" -> check_location_reply(data, body)
      [] endpoint = "batch-check" -> batch_check_reply(data, body)
      [] endpoint = "nearest-prison" -> nearest_prison_reply(data, body)
      [] endpoint = "stats" -> stats_reply(data)

\* __init__ up to self.prisons_metric = self.prisons_gdf.to_crs(epsg=3857)
initialize_api_read_file(prisons_file, buffer_meters) ==
    /\ building = NotBuilding
    /\ building' = [stage |-> 1,
                    self |-> [prisons_gdf |-> prisons_file,
                              buffer_meters |-> buffer_meters,
                              prisons_metric |-> to_crs(prisons_file, MERCATOR)]]
    /\ UNCHANGED <<PRISONS_DATA, request, response, calls, frame, client, extractor>>

\* _create_prison_zones: self.prisons_metric['zone'] = ...buffer(...)
initialize_api_zone_column ==
    /\ building.stage = 1
    /\ building' = [stage |-> 2,
                    self |-> [building.self EXCEPT !.prisons_metric =
                                with_zone_column(@, building.self.buffer_meters)]]
    /\ UNCHANGED <<PRISONS_DATA, request, response, calls, frame, client, extractor>>

\* _create_prison_zones: self.prisons_zones = self.prisons_metric.to_crs(...)
initialize_api_prisons_zones ==
    /\ building.stage = 2
    /\ building' = [stage |-> 3,
                    self |-> [prisons_gdf |-> building.self.prisons_gdf,
                              buffer_meters |-> building.self.buffer_meters,
                              prisons_metric |-> building.self.prisons_metric,
                              prisons_zones |-> to_crs(building.self.prisons_metric, WGS84)]]
    /\ UNCHANGED <<PRISONS_DATA, request, response, calls, frame, client, extractor>>

\* PRISONS_DATA = PrisonGeofencing(prisons_file, buffer_meters): the store
\* to the global, once the constructor has returned
initialize_api_assign ==
    /\ building.stage = 3
    /\ PRISONS_DATA' = building.self
    /\ building' = NotBuilding
    /\ UNCHANGED <<request, response, calls, frame, client, extractor>>

\* what initialize_api raises: FileNotFoundError when no file is given and
\* glob finds none, the error of gpd.read_file for a file it cannot read,
\* and from the constructor on, the error of to_crs or buffer
InitErrors(stage) ==
    IF stage = 0 THEN {"FileNotFoundError", "DriverError"} ELSE {"ValueError"}

\* an initialize_api that unsets the global when it fails
initialize_api_raises_unloading(exc) ==
    /\ building.stage \in {0, 1, 2}
    /\ exc \in InitErrors(building.stage)
    /\ building' = [stage |-> 4, raised |-> exc]
    /\ PRISONS_DATA' = None
    /\ UNCHANGED <<request, response, calls, frame, client, extractor>>

\* initialize_api raises exc before `PRISONS_DATA = ...` is reached: the
\* object under construction is dropped and the global is not assigned
initialize_api_raises(exc) ==
    /\ building.stage \in {0, 1, 2}
    /\ exc \in InitErrors(building.stage)
    /\ building' = [stage |-> 4, raised |-> exc]
    /\ UNCHANGED <<PRISONS_DATA, request, response, calls, frame, client, extractor>>

\* the exception has left initialize_api
initialize_api_raised ==
    /\ building.stage = 4
    /\ building' = NotBuilding
    /\ UNCHANGED <<PRISONS_DATA, request, response, calls, frame, client, extractor>>

\* a request arrives and its handler starts
handler_begin(req) ==
    /\ frame = NoFrame
    /\ request' = req
    /\ frame' = [pc |-> "guard", reads |-> <<>>, gdf |-> None]
    /\ UNCHANGED <<PRISONS_DATA, response, calls, building, client, extractor>>

\* `if not PRISONS_DATA: return ... 500` (in health_check, the condition of
\* `... if PRISONS_DATA else 0`): the first read of the global
handler_guard ==
    /\ frame.pc = "guard"
    /\ IF NotLoaded(PRISONS_DATA)
       THEN /\ response' = [status |-> reply_of(request.endpoint, None, request.body).status,
                            json |-> reply_of(request.endpoint, None, request.body).json]
            /\ frame' = [frame EXCEPT !.pc = "done", !.reads = Append(@, PRISONS_DATA)]
       ELSE /\ response' = response
            /\ frame' = [frame EXCEPT !.pc = IF request.endpoint = "stats" THEN "gdf" ELSE "call",
                                      !.reads = Append(@, PRISONS_DATA)]
    /\ UNCHANGED <<PRISONS_DATA, request, calls, building, client, extractor>>

\* stats: gdf = PRISONS_DATA.prisons_gdf
stats_read_gdf ==
    /\ frame.pc = "gdf"
    /\ frame' = [frame EXCEPT !.pc = "call", !.gdf = PRISONS_DATA.prisons_gdf,
                              !.reads = Append(@, PRISONS_DATA)]
    /\ UNCHANGED <<PRISONS_DATA, request, response, calls, building, client, extractor>>

\* the rest of the handler, with its last read of the global:
\* PRISONS_DATA.check_location(...), .batch_check(...),
\* .get_nearest_prison(...), len(PRISONS_DATA.prisons_gdf), and in stats
\* int(PRISONS_DATA.buffer_meters)
handler_call ==
    /\ frame.pc = "call"
    /\ LET reply == IF request.endpoint = "stats"
                    THEN Reply(200, stats_json(frame.gdf, PRISONS_DATA.buffer_meters), <<>>)
                    ELSE reply_of(request.endpoint, PRISONS_DATA, request.body)
       IN  /\ response' = [status |-> reply.status, json |-> reply.json]
           /\ calls' = reply.calls
    /\ frame' = [frame EXCEPT !.pc = "done", !.reads = Append(@, PRISONS_DATA)]
    /\ UNCHANGED <<PRISONS_DATA, request, building, client, extractor>>

\* the response is sent and the thread ends
handler_end ==
    /\ frame.pc = "done"
    /\ request' = NoRequest
    /\ response' = NoResponse
    /\ calls' = <<>>
    /\ frame' = NoFrame
    /\ UNCHANGED <<PRISONS_DATA, building, client, extractor>>

ReloadNext ==
    \/ \E f \in ReloadFiles, b \in ReloadBuffers : initialize_api_read_file(f, b)
    \/ initialize_api_zone_column
    \/ initialize_api_prisons_zones
    \/ initialize_api_assign
    \/ \E exc \in {"FileNotFoundError", "DriverError", "ValueError"} : initialize_api_raises(exc)
    \/ initialize_api_raised
    \/ \E req \in ThreadedRequests : handler_begin(req)
    \/ handler_guard
    \/ stats_read_gdf
    \/ handler_call
    \/ handler_end

ReloadSpec == Init /\ [][ReloadNext]_vars

(***************************************************************************)
(* BankingGeofenceClient.validate_transaction_location                     *)
(* (example_integration.py): the call posts latitude, longitude and        *)
(* transaction_id to /api/v1/check-location and turns what comes back into *)
(* a decision.                                                             *)
(***************************************************************************)
\* a body that is no JSON: response.json() raises
NotJson == [notjson |-> TRUE]

\* what self.session.post(...) gives: a response, or an exception
HttpResponse(status_code, json) == [kind |-> "response", status_code |-> status_code, json |-> json]
PostRaised(exc) == [kind |-> "raised", exc |-> exc]

\* the states of the service the request may meet
ClientData ==
    {None,
     PrisonGeofencing(<<SquareRow>>, 0),
     PrisonGeofencing(<<WideRow, SquareRow>>, DefaultBuffer),
     PrisonGeofencing(<<NullRow>>, DefaultBuffer)}

ClientPoints == {Centroid, Corner, InWideOnly, East5km, FarAway, Lat200}

\* what comes back when the service is not what answers: the timeout, a
\* refused connection, the error page of a gateway, a 200 of something else
NoService ==
    {PostRaised("Timeout"), PostRaised("ConnectionError"),
     HttpResponse(502, NotJson), HttpResponse(503, [error |-> "unavailable"]),
     HttpResponse(200, NotJson), HttpResponse(200, [status |-> "healthy"])}

\* the dict of the three fail-open returns
fail_open(reason) ==
    [should_block |-> FALSE, reason |-> reason, prison_name |-> None,
     risk_level |-> "UNKNOWN", error |-> TRUE]

\* a client that blocks when it cannot tell
validate_fail_closed(posted) ==
    IF posted.kind = "raised" \/ posted.status_code # 200
       \/ {"inside_prison", "risk_level"} \ DOMAIN posted.json # {}
    THEN [should_block |-> TRUE, reason |-> "geofencing_unavailable", prison_name |-> None,
          risk_level |-> "UNKNOWN", error |-> TRUE]
    ELSE [should_block |-> posted.json.inside_prison,
          reason |-> IF posted.json.inside_prison THEN "inside_prison" ELSE "location_ok",
          prison_name |-> IF posted.json.prison_info # None THEN "N/A" ELSE None,
          risk_level |-> posted.json.risk_level,
          error |-> FALSE]

\* the body of validate_transaction_location from the return of post on:
\* the dict returned.  (A row carries no name in this model: prison_name is
\* the 'N/A' the service sends for a row without one.)
validate_transaction_location(posted) ==
    IF posted.kind = "raised"
    THEN (IF posted.exc = "Timeout" THEN fail_open("geofencing_timeout")
          ELSE fail_open("geofencing_error"))
    ELSE IF posted.status_code # 200 THEN fail_open("geofencing_service_error")
    \* response.json() raises, or data[...] raises KeyError: except Exception
    ELSE IF posted.json = NotJson THEN fail_open("geofencing_error")
    ELSE IF {"inside_prison", "risk_level"} \ DOMAIN posted.json # {}
    THEN fail_open("geofencing_error")
    ELSE [should_block |-> posted.json.inside_prison,
          reason |-> IF posted.json.inside_prison THEN "inside_prison" ELSE "location_ok",
          prison_name |-> IF "prison_info" \in DOMAIN posted.json /\ posted.json.prison_info # None
                          THEN "N/A" ELSE None,
          risk_level |-> posted.json.risk_level,
          error |-> FALSE]

\* validate_transaction_location(latitude, longitude, transaction_id) is
\* called
validate_transaction_location_call(latitude, longitude) ==
    /\ client = NoCall
    /\ client' = [pc |-> "post", latitude |-> latitude, longitude |-> longitude]
    /\ UNCHANGED <<PRISONS_DATA, request, response, calls, building, frame, extractor>>

\* self.session.post(..., json={...}, timeout=timeout) returns or raises
session_post ==
    /\ client.pc = "post"
    /\ \E posted \in NoService \cup
            {LET reply == check_location_reply(
                             data, CheckBody(JNum(client.latitude), JNum(client.longitude), JText))
             IN  HttpResponse(reply.status, reply.json) : data \in ClientData} :
          client' = [pc |-> "posted", latitude |-> client.latitude,
                     longitude |-> client.longitude, posted |-> posted]
    /\ UNCHANGED <<PRISONS_DATA, request, response, calls, building, frame, extractor>>

\* the method returns its dict
validate_transaction_location_return ==
    /\ client.pc = "posted"
    /\ client' = [pc |-> "returned", latitude |-> client.latitude,
                  longitude |-> client.longitude, posted |-> client.posted,
                  result |-> validate_transaction_location(client.posted)]
    /\ UNCHANGED <<PRISONS_DATA, request, response, calls, building, frame, extractor>>

\* the caller has acted on the dict
validate_transaction_location_done ==
    /\ client.pc = "returned"
    /\ client' = NoCall
    /\ UNCHANGED <<PRISONS_DATA, request, response, calls, building, frame, extractor>>

ClientNext ==
    \/ \E p \in ClientPoints : validate_transaction_location_call(p[1], p[2])
    \/ session_post
    \/ validate_transaction_location_return
    \/ validate_transaction_location_done

ClientSpec == Init /\ [][ClientNext]_vars

(***************************************************************************)
(* OSMPrisonExtractor._execute_overpass_query(query, retry)                *)
(* (extract_prisons.py): the loop `for attempt in range(retry)`.           *)
(* extractor.events lists what the call has done so far: the posts, each   *)
(* with how it ended, and the sleeps, each with its seconds.               *)
(***************************************************************************)
\* most attempts asked for (the default of retry is 3)
MaxRetry == 3

\* the queries of extract_prisons: the first, and the one per state
Queries == {"brazil", "state"}

\* requests.RequestException (a timeout, a refused connection, the HTTPError
\* of raise_for_status) and json.JSONDecodeError: what the except clause
\* catches
Caught == {"Timeout", "ConnectionError", "HTTPError", "JSONDecodeError"}

Posted(outcome) == [did |-> "post", outcome |-> outcome]
Slept(seconds) == [did |-> "sleep", seconds |-> seconds]

\* a wait that does not grow
constant_wait(attempt) == 10

\* wait_time = (attempt + 1) * 10
wait_time(attempt) == (attempt + 1) * 10

\* _execute_overpass_query(query, retry) is called; with retry = 0 the loop
\* body never runs and the method returns None
_execute_overpass_query(query, retry) ==
    /\ extractor = NoCall
    /\ extractor' = [pc |-> IF retry = 0 THEN "returned" ELSE "post",
                     query |-> query, retry |-> retry, attempt |-> 0,
                     events |-> <<>>, value |-> None]
    /\ UNCHANGED <<PRISONS_DATA, request, response, calls, building, frame, client>>

\* the try block runs through: return response.json()
post_returns ==
    /\ extractor.pc = "post"
    /\ extractor' = [extractor EXCEPT !.pc = "returned",
                                      !.events = Append(@, Posted("ok")),
                                      !.value = [elements |-> extractor.query]]
    /\ UNCHANGED <<PRISONS_DATA, request, response, calls, building, frame, client>>

\* the try block raises e, caught: sleep and go round again if
\* attempt < retry - 1, else raise
post_raises(e) ==
    /\ extractor.pc = "post"
    /\ IF extractor.attempt < extractor.retry - 1
       THEN extractor' = [extractor EXCEPT
                            !.attempt = @ + 1,
                            !.events = @ \o <<Posted(e), Slept(wait_time(extractor.attempt))>>]
       ELSE extractor' = [extractor EXCEPT !.pc = "raised",
                                          !.events = Append(@, Posted(e)),
                                          !.value = Raised(e)]
    /\ UNCHANGED <<PRISONS_DATA, request, response, calls, building, frame, client>>

\* the caller has the value or the exception
_execute_overpass_query_done ==
    /\ extractor.pc \in {"returned", "raised"}
    /\ extractor' = NoCall
    /\ UNCHANGED <<PRISONS_DATA, request, response, calls, building, frame, client>>

RetryNext ==
    \/ \E query \in Queries, retry \in 0..MaxRetry : _execute_overpass_query(query, retry)
    \/ post_returns
    \/ \E e \in Caught : post_raises(e)
    \/ _execute_overpass_query_done

RetrySpec == Init /\ [][RetryNext]_vars

(***************************************************************************)
(* OSMPrisonExtractor._parse_osm_elements(elements, element_type)          *)
(* (extract_prisons.py): the features made of the elements the Overpass    *)
(* API returned.  An element is a node, a way or a relation; a key an      *)
(* element does not carry is Missing.  Tags are left out.                  *)
(***************************************************************************)
\* most elements in one list
MaxElements == 3

\* the value of a key of an element: Missing when the key is not there
Missing == [missing |-> TRUE]
Have(value) == [missing |-> FALSE, value |-> value]

Element(type, id, lonlat, geometry, center) ==
    [type |-> type, id |-> id, lonlat |-> lonlat, geometry |-> geometry, center |-> center]

\* the coordinates of the corners of the square, first corner again at the
\* end, and a 'closed' ring of three coordinates
SquareRing == <<(<<0, 0>>), (<<0, 2>>), (<<2, 2>>), (<<2, 0>>), (<<0, 0>>)>>
ThreePointRing == <<(<<0, 0>>), (<<2, 2>>), (<<0, 0>>)>>
OpenLine == <<(<<0, 0>>), (<<2, 2>>)>>

ElementMenu ==
    {Element("node", Have(1), Have(<<1, 1>>), Missing, Missing),
     \* a node without 'lat'
     Element("node", Have(2), Missing, Missing, Missing),
     \* an element without 'id'
     Element("node", Missing, Have(<<3, 3>>), Missing, Missing),
     \* way 1 is not node 1: OSM numbers each type of its own
     Element("way", Have(1), Missing, Have(SquareRing), Have(<<1, 1>>)),
     Element("way", Have(3), Missing, Have(ThreePointRing), Have(<<1, 1>>)),
     Element("way", Have(4), Missing, Have(OpenLine), Have(<<1, 1>>)),
     Element("way", Have(5), Missing, Missing, Have(<<7, 7>>)),
     Element("way", Have(7), Missing, Have(OpenLine), Missing),
     Element("relation", Have(6), Missing, Missing, Missing),
     Element("relation", Have(8), Missing, Missing, Have(<<9, 9>>))}

ElementLists == SeqsUpTo(ElementMenu, MaxElements)

\* shapely's Polygon(coords): a ring needs four coordinates or more
\* (ValueError otherwise); the polygon is held as its bounding rectangle
PolygonOf(coords) ==
    IF Len(coords) < 4 THEN Raised("ValueError")
    ELSE LET xs == {coords[i][1] : i \in 1..Len(coords)}
             ys == {coords[i][2] : i \in 1..Len(coords)}
         IN  Polygon(WGS84, Min(xs), Min(ys), -Min({-x : x \in xs}), -Min({-y : y \in ys}))

\* Point(d['lon'], d['lat']), KeyError when the coordinates are not there
PointOf(lonlat) ==
    IF lonlat.missing THEN Raised("KeyError") ELSE Point(lonlat.value[1], lonlat.value[2])

\* the geometry extracted from an element: a geometry, NoGeometry (geom is
\* None), or the exception raised
geom_of(element) ==
    CASE element.type = "node" -> PointOf(element.lonlat)
      [] element.type = "way" ->
            IF ~element.geometry.missing
            THEN LET coords == element.geometry.value
                 IN  IF Len(coords) >= 3 /\ coords[1] = coords[Len(coords)]
                     THEN PolygonOf(coords)
                     ELSE IF ~element.center.missing THEN PointOf(element.center)
                     ELSE NoGeometry
            ELSE IF ~element.center.missing THEN PointOf(element.center)
            ELSE NoGeometry
      [] element.type = "relation" ->
            IF ~element.center.missing THEN PointOf(element.center) ELSE NoGeometry
      [] OTHER -> NoGeometry

Feature(osm_id, osm_type, geometry) ==
    [osm_id |-> osm_id, osm_type |-> osm_type, geometry |-> geometry]

\* the body of the loop for one element: the features it appends (one or
\* none); an exception is caught and the element passed over
features_of(element) ==
    LET geom == geom_of(element)
    IN  IF IsRaised(geom) THEN <<>>
        ELSE IF geom = NoGeometry THEN <<>>
        \* element['id']: KeyError
        ELSE IF element.id.missing THEN <<>>
        ELSE <<Feature(element.id.value, element.type, geom)>>

RECURSIVE parse_stopping_at_error(_)
\* a loop that an exception ends
parse_stopping_at_error(elements) ==
    IF elements = <<>> THEN <<>>
    ELSE IF IsRaised(geom_of(Head(elements))) \/ Head(elements).id.missing
    THEN <<>>
    ELSE features_of(Head(elements)) \o parse_stopping_at_error(Tail(elements))

RECURSIVE parse_elements(_)
\* the loop `for element in elements`: the list features
parse_elements(elements) ==
    IF elements = <<>> THEN <<>>
    ELSE features_of(Head(elements)) \o parse_elements(Tail(elements))

\* _parse_osm_elements(elements, element_type): the GeoDataFrame returned,
\* with a row per feature (no row when there is no feature)
_parse_osm_elements(elements) ==
    /\ extractor = NoCall
    /\ extractor' = [pc |-> "parsed", elements |-> elements, gdf |-> parse_elements(elements)]
    /\ UNCHANGED <<PRISONS_DATA, request, response, calls, building, frame, client>>

\* extract_prisons returns the GeoDataFrame
_parse_osm_elements_done ==
    /\ extractor.pc = "parsed"
    /\ extractor' = NoCall
    /\ UNCHANGED <<PRISONS_DATA, request, response, calls, building, frame, client>>

ParseNext ==
    \/ \E elements \in ElementLists : _parse_osm_elements(elements)
    \/ _parse_osm_elements_done

ParseSpec == Init /\ [][ParseNext]_vars

(***************************************************************************)
(* Vocabulary of the properties.                                           *)
(***************************************************************************)
Loaded == PRISONS_DATA # None
Served(endpoint) == request.endpoint = endpoint
IsNumeric(v) == v.type \in {"number", "numstr"}

\* the request is a check-location whose body carries two numbers
ChecksAPoint ==
    /\ Served("check-location")
    /\ request.body # NoBody
    /\ IsNumeric(request.body.latitude)
    /\ IsNumeric(request.body.longitude)
ReqLat == request.body.latitude.num
ReqLon == request.body.longitude.num

\* latitude in [-90, 90] and longitude in [-180, 180]
InRange(latitude, longitude) ==
    /\ Deg(-90) <= latitude /\ latitude <= Deg(90)
    /\ Deg(-180) <= longitude /\ longitude <= Deg(180)

\* the safety geometry the zone preparer is specified to produce from a raw
\* geometry: the same point for a point; for a polygon the erosion by the
\* margin, taken in the metric projection and reprojected back
SafetyGeometry(raw, margin) ==
    IF raw.kind = "Point" THEN raw
    ELSE to_crs_geometry(buffer(to_crs_geometry(raw, MERCATOR), -margin), WGS84)

\* the point is farther than margin metres from the raw geometry
OutsideByMoreThan(raw, latitude, longitude, margin) ==
    Dist2Units(to_crs_geometry(raw, MERCATOR),
               to_crs_geometry(QueryPoint(latitude, longitude), MERCATOR))
        > (margin * margin) \div (MetersPerUnit * MetersPerUnit)

\* the query is at the centroid of the polygon
AtCentroid(raw, latitude, longitude) ==
    /\ 2 * longitude = raw.xmin + raw.xmax
    /\ 2 * latitude = raw.ymin + raw.ymax

\* margin smaller than the inradius of the (rectangular) polygon, in metres
MarginBelowInradius(raw, margin) ==
    /\ 0 <= margin
    /\ 2 * margin < (raw.xmax - raw.xmin) * MetersPerUnit
    /\ 2 * margin < (raw.ymax - raw.ymin) * MetersPerUnit

ZoneRows == 1..Len(PRISONS_DATA.prisons_zones)

\* data is loaded from a file without null geometries, with a margin the
\* zone preparer is specified for (>= 0)
LoadedWithMargin ==
    /\ Loaded
    /\ PRISONS_DATA.buffer_meters >= 0
    /\ \A i \in ZoneRows : PRISONS_DATA.prisons_gdf[i].geometry.kind # "None"

(***************************************************************************)
(* C1: after zone preparation every zone's 'zone' geometry, the one        *)
(* check_location tests, is in geographic coordinates, the coordinate      *)
(* reference system of the query point Point(longitude, latitude).         *)
(***************************************************************************)
C1_ZonesAreGeographic ==
    LoadedWithMargin =>
        \A i \in ZoneRows :
            LET zone == PRISONS_DATA.prisons_zones[i].zone
            IN  zone.kind # "None" => zone.crs = QueryPoint(0, 0).crs

(***************************************************************************)
(* C2: for a loaded zone that is a non-degenerate polygon and a margin     *)
(* below its inradius, a check at the zone's centroid answers inside, with *)
(* that zone's id when the safety geometry of no other zone holds the      *)
(* point.                                                                  *)
(***************************************************************************)
C2_CentroidIsInside ==
    (LoadedWithMargin /\ ChecksAPoint) =>
        \A i \in ZoneRows :
            LET raw == PRISONS_DATA.prisons_gdf[i].geometry
                margin == PRISONS_DATA.buffer_meters
                alone == \A j \in ZoneRows \ {i} :
                            ~contains(SafetyGeometry(PRISONS_DATA.prisons_gdf[j].geometry, margin),
                                      QueryPoint(ReqLat, ReqLon))
            IN  (/\ raw.kind = "Polygon"
                 /\ MarginBelowInradius(raw, margin)
                 /\ AtCentroid(raw, ReqLat, ReqLon))
                => /\ response.status = 200
                   /\ response.json.inside_prison
                   /\ alone => response.json.prison_info
                                = [osm_id |-> PRISONS_DATA.prisons_gdf[i].osm_id]

(***************************************************************************)
(* C3: no false positives: a check of a point that lies outside every      *)
(* zone's raw geometry by more than the margin answers inside_prison =     *)
(* false.                                                                  *)
(***************************************************************************)
C3_NoFalsePositive ==
    (/\ LoadedWithMargin /\ ChecksAPoint
     /\ Projectable(ReqLat) /\ InRange(ReqLat, ReqLon)
     /\ \A i \in ZoneRows :
            OutsideByMoreThan(PRISONS_DATA.prisons_gdf[i].geometry, ReqLat, ReqLon,
                              PRISONS_DATA.buffer_meters))
    => (response.status = 200 /\ ~response.json.inside_prison)

(***************************************************************************)
(* C4: a check whose latitude is outside [-90, 90] or whose longitude is   *)
(* outside [-180, 180] is refused with HTTP 400 and no containment test is *)
(* made for it.                                                            *)
(***************************************************************************)
C4_OutOfRangeRefused ==
    (LoadedWithMargin /\ ChecksAPoint /\ ~InRange(ReqLat, ReqLon))
    => (response.status = 400 /\ calls = <<>>)

(***************************************************************************)
(* C5: while PRISONS_DATA is unset, every request to check-location,       *)
(* batch-check, nearest-prison and stats is answered with the error 500    *)
(* and no containment test is made; none gets a verdict.                   *)
(***************************************************************************)
C5_NotLoadedIs500 ==
    (~Loaded /\ request.endpoint \in {"check-location", "batch-check", "nearest-prison", "stats"})
    => /\ response.status = 500
       /\ DOMAIN response.json = {"error"}
       /\ calls = <<>>

C5_Witness ==
    /\ ~Loaded
    /\ ChecksAPoint
    /\ <<ReqLat, ReqLon>> = Centroid
    /\ response.status = 500

(***************************************************************************)
(* C6: every result of check_location is either matched (inside, HIGH,     *)
(* BLOCK, the osm_id of a zone whose 'zone' contains the point) or         *)
(* unmatched (not inside, LOW, ALLOW, no prison_info), and it is matched   *)
(* iff some row's 'zone' contains the point.                               *)
(***************************************************************************)
SomeZoneContains(latitude, longitude) ==
    \E i \in ZoneRows :
        contains(PRISONS_DATA.prisons_zones[i].zone, QueryPoint(latitude, longitude))

IsMatched(result, latitude, longitude) ==
    /\ result.inside_prison = TRUE
    /\ result.risk_level = "HIGH"
    /\ result.action = "BLOCK"
    /\ \E i \in ZoneRows :
          /\ contains(PRISONS_DATA.prisons_zones[i].zone, QueryPoint(latitude, longitude))
          /\ result.prison_info = [osm_id |-> PRISONS_DATA.prisons_zones[i].osm_id]

IsUnmatched(result) ==
    /\ result.inside_prison = FALSE
    /\ result.risk_level = "LOW"
    /\ result.action = "ALLOW"
    /\ result.prison_info = None

TwoShapes(result, latitude, longitude) ==
    IF SomeZoneContains(latitude, longitude)
    THEN IsMatched(result, latitude, longitude)
    ELSE IsUnmatched(result)

C7_PointZoneKept ==
    LoadedWithMargin =>
        \A i \in ZoneRows :
            LET raw == PRISONS_DATA.prisons_gdf[i].geometry
            IN  raw.kind = "Point" =>
                  /\ PRISONS_DATA.prisons_zones[i].zone \in {raw, to_crs_geometry(raw, MERCATOR)}
                  /\ (ChecksAPoint /\ QueryPoint(ReqLat, ReqLon) = raw)
                     => (response.status = 200 /\ response.json.inside_prison)

(***************************************************************************)
(* C8: when the point of a check lies inside the 'zone' of several rows,   *)
(* the zone reported is the one with the lowest id among them, whatever    *)
(* the order of the rows in the file.                                      *)
(***************************************************************************)
C8_LowestIdWins ==
    (LoadedWithMargin /\ ChecksAPoint /\ response.status = 200 /\ SomeZoneContains(ReqLat, ReqLon))
    => response.json.prison_info
         = [osm_id |-> Min({PRISONS_DATA.prisons_zones[i].osm_id : i \in
                              {j \in ZoneRows : contains(PRISONS_DATA.prisons_zones[j].zone,
                                                         QueryPoint(ReqLat, ReqLon))}})]

(***************************************************************************)
(* C9 and C10: batch requests.                                             *)
(***************************************************************************)
\* the request is a batch-check whose 'locations' is a list
ChecksABatch ==
    /\ Served("batch-check")
    /\ request.body # NoBody
    /\ request.body.locations.type = "list"
BatchItems == request.body.locations.items

\* an entry without two numeric coordinates
Malformed(loc) ==
    \/ ~loc.object
    \/ ~IsNumeric(loc.latitude)
    \/ ~IsNumeric(loc.longitude)

\* the k-th result is the result of check_location for the k-th entry
NormalResult(k) ==
    response.json.results[k]
        = PrisonGeofencing_check_location(PRISONS_DATA, BatchItems[k].latitude.num,
                                          BatchItems[k].longitude.num)

(***************************************************************************)
(* C9 as stated: in a batch of which some entries are malformed and some   *)
(* are not, the request is not failed: each malformed entry yields an      *)
(* error entry at its position and every other entry its normal result.    *)
(***************************************************************************)
C9_PartialFailure ==
    (/\ LoadedWithMargin /\ ChecksABatch
     /\ \E k \in 1..Len(BatchItems) : Malformed(BatchItems[k])
     /\ \E k \in 1..Len(BatchItems) : ~Malformed(BatchItems[k]))
    => /\ response.status = 200
       /\ Len(response.json.results) = Len(BatchItems)
       /\ \A k \in 1..Len(BatchItems) :
             IF Malformed(BatchItems[k])
             THEN "error" \in DOMAIN response.json.results[k]
             ELSE NormalResult(k)

(***************************************************************************)
(* C9 amended: batch check is all-or-nothing.  A batch with a malformed    *)
(* entry at any position is refused as a whole with HTTP 400 'Invalid      *)
(* location format', no entry of it being checked; a batch that is         *)
(* answered 200 has the normal result of every entry at its position.      *)
(***************************************************************************)
C9_AllOrNothing ==
    (Loaded /\ ChecksABatch)
    => /\ (\E k \in 1..Len(BatchItems) : Malformed(BatchItems[k]))
          => /\ response.status = 400
             /\ response.json = [error |-> "Invalid location format"]
             /\ calls = <<>>
       /\ response.status = 200
          => /\ Len(response.json.results) = Len(BatchItems)
             /\ \A k \in 1..Len(BatchItems) : NormalResult(k)

C9_Witness ==
    /\ LoadedWithMargin /\ ChecksABatch
    /\ Len(BatchItems) = 3
    /\ ~Malformed(BatchItems[1]) /\ Malformed(BatchItems[2]) /\ ~Malformed(BatchItems[3])
    /\ response.status = 400

(***************************************************************************)
(* C10: for a batch of three locations of which one has latitude 200, the  *)
(* request is refused with HTTP 400 or that entry comes back flagged as an *)
(* error: it never gets an ordinary containment verdict.                   *)
(***************************************************************************)
C10_Latitude200NeverJudged ==
    (LoadedWithMargin /\ ChecksABatch /\ Len(BatchItems) = 3)
    => \A k \in 1..3 :
          (~Malformed(BatchItems[k]) /\ BatchItems[k].latitude.num = Deg(200))
          => \/ response.status = 400
             \/ /\ response.status = 200
                /\ "error" \in DOMAIN response.json.results[k]
                /\ "inside_prison" \notin DOMAIN response.json.results[k]

(***************************************************************************)
(* C11: a batch that is accepted (answered 200) with n locations returns   *)
(* exactly n results and total = n, and the i-th result is what            *)
(* check_location gives for the i-th input location, its echoed            *)
(* coordinates being those of input i.                                     *)
(***************************************************************************)
C11_BatchInInputOrder ==
    (Loaded /\ ChecksABatch /\ response.status = 200)
    => /\ Len(response.json.results) = Len(BatchItems)
       /\ response.json.total = Len(BatchItems)
       /\ calls = [k \in 1..Len(BatchItems) |->
                     <<BatchItems[k].latitude.num, BatchItems[k].longitude.num>>]
       /\ \A k \in 1..Len(BatchItems) :
             /\ NormalResult(k)
             /\ response.json.results[k].coordinates
                  = Coordinates(BatchItems[k].latitude.num, BatchItems[k].longitude.num)

C11_Witness ==
    /\ LoadedWithMargin /\ ChecksABatch /\ response.status = 200
    /\ Len(BatchItems) = 3
    /\ BatchItems[1] # BatchItems[2] /\ BatchItems[2] = BatchItems[3]
    /\ response.json.total = 3

(***************************************************************************)
(* C12 and C13: nearest-prison requests.                                   *)
(***************************************************************************)
\* the request is a nearest-prison with numeric latitude, longitude and
\* max_distance_km (5 km when the key is absent)
AsksNearest ==
    /\ Served("nearest-prison")
    /\ request.body # NoBody
    /\ IsNumeric(request.body.latitude)
    /\ IsNumeric(request.body.longitude)
    /\ request.body.max_distance_km = JAbsent \/ IsNumeric(request.body.max_distance_km)
ReqMaxKm ==
    IF request.body.max_distance_km = JAbsent THEN DefaultMaxDistanceKm
    ELSE request.body.max_distance_km.num

\* squared planar distance, in grid units (500 m), of the point to the raw
\* geometry as the file gives it
RawDist2(raw, latitude, longitude) ==
    LET dx == Max(0, Max(raw.xmin - longitude, longitude - raw.xmax))
        dy == Max(0, Max(raw.ymin - latitude, latitude - raw.ymax))
    IN  dx * dx + dy * dy

\* the rows that have a raw geometry
RawRows == {i \in ZoneRows : HasCoords(PRISONS_DATA.prisons_gdf[i].geometry)}

\* row i is within max_km kilometres of the point (a grid unit is 0.5 km)
WithinKm(i, latitude, longitude, max_km) ==
    /\ max_km >= 0
    /\ RawDist2(PRISONS_DATA.prisons_gdf[i].geometry, latitude, longitude)
         <= (2 * max_km) * (2 * max_km)

\* the answer of the endpoint when get_nearest_prison returns none
IsNotFound(json) == json.distance_km = None /\ json.prison_info = None

(***************************************************************************)
(* C12: for a point the projection is defined for, nearest-prison returns  *)
(* a result iff some row's raw geometry is within max_distance_km of the   *)
(* point; the osm_id returned is that of a row at the minimum distance     *)
(* over all rows and distance_km is that minimum (to the metre); otherwise *)
(* the answer has distance_km = null and prison_info = null.               *)
(***************************************************************************)
C12_NearestIsMinimum ==
    (Loaded /\ AsksNearest /\ Projectable(ReqLat))
    => /\ response.status = 200
       /\ IF \E i \in RawRows : WithinKm(i, ReqLat, ReqLon, ReqMaxKm)
          THEN \E i \in RawRows :
                  /\ \A j \in RawRows :
                        RawDist2(PRISONS_DATA.prisons_gdf[i].geometry, ReqLat, ReqLon)
                          <= RawDist2(PRISONS_DATA.prisons_gdf[j].geometry, ReqLat, ReqLon)
                  /\ response.json.prison_info = [osm_id |-> PRISONS_DATA.prisons_gdf[i].osm_id]
                  /\ LET d2 == RawDist2(PRISONS_DATA.prisons_gdf[i].geometry, ReqLat, ReqLon)
                     IN  \* distance_km in thousandths: |distance_km - 500 * sqrt(d2)| <= 1/2
                         /\ (2 * response.json.distance_km - 1) * (2 * response.json.distance_km - 1)
                               <= 1000000 * d2 \/ response.json.distance_km = 0
                         /\ 1000000 * d2
                               <= (2 * response.json.distance_km + 1) * (2 * response.json.distance_km + 1)
          ELSE IsNotFound(response.json)

C12_Witness ==
    /\ LoadedWithMargin /\ AsksNearest /\ Projectable(ReqLat)
    /\ PRISONS_DATA.buffer_meters > 0
    /\ Len(PRISONS_DATA.prisons_gdf) = 2
    /\ response.status = 200
    /\ response.json.prison_info = [osm_id |-> PRISONS_DATA.prisons_gdf[2].osm_id]
    /\ response.json.distance_km = 5000

(***************************************************************************)
(* C13: a nearest-prison request whose max_distance_km is zero or negative *)
(* is rejected as an error: it is answered neither with a nearest-zone     *)
(* result nor with the 'not found within radius' response.                 *)
(***************************************************************************)
C13_NonPositiveRadiusRefused ==
    (LoadedWithMargin /\ AsksNearest /\ InRange(ReqLat, ReqLon) /\ ReqMaxKm <= 0)
    => /\ response.status >= 400
       /\ DOMAIN response.json = {"error"}

(***************************************************************************)
(* C14: with initialize_api running again while a handler runs, the        *)
(* response of every handler is the response one single value of           *)
(* PRISONS_DATA gives, a value the handler read; and the global never      *)
(* holds, and no handler reads, a partially constructed PrisonGeofencing.  *)
(***************************************************************************)
Complete(data) ==
    data = None \/ DOMAIN data = {"prisons_gdf", "buffer_meters", "prisons_metric", "prisons_zones"}

FromOneInstance ==
    \E k \in 1..Len(frame.reads) :
        LET reply == reply_of(request.endpoint, frame.reads[k], request.body)
        IN  response = [status |-> reply.status, json |-> reply.json]

C14_ReloadIsAtomic ==
    /\ Complete(PRISONS_DATA)
    /\ frame # NoFrame => \A k \in 1..Len(frame.reads) : Complete(frame.reads[k])
    /\ frame.pc = "done" => FromOneInstance

(***************************************************************************)
(* C15: no query changes zone state.  At every moment the loaded zone set  *)
(* (raw geometries, metric geometries, zones, margin) is what the          *)
(* constructor made of its file and margin, and the step of a handler      *)
(* (check-location, batch-check, nearest-prison, health, stats) leaves     *)
(* PRISONS_DATA as it was: zone preparation is not run by a query.         *)
(***************************************************************************)
AsLoaded ==
    Loaded => PRISONS_DATA = PrisonGeofencing(PRISONS_DATA.prisons_gdf, PRISONS_DATA.buffer_meters)

C15_QueriesLeaveZonesAlone ==
    /\ []AsLoaded
    /\ [][request' # NoRequest => PRISONS_DATA' = PRISONS_DATA]_vars

C15_Witness ==
    /\ LoadedWithMargin /\ AsLoaded
    /\ ChecksABatch /\ Len(calls) = 3
    /\ response.status = 200
    /\ response.json.results[1].inside_prison

(***************************************************************************)
(* C16: with zone data loaded, a check-location request whose body is      *)
(* absent, lacks latitude or longitude, or carries a value that float()    *)
(* does not convert is answered with HTTP 400, and check_location is not   *)
(* called for it.                                                          *)
(***************************************************************************)
BadCheckBody(body) ==
    IF body = NoBody THEN TRUE
    ELSE \/ body.latitude = JAbsent
         \/ body.longitude = JAbsent
         \/ ~IsNumeric(body.latitude)
         \/ ~IsNumeric(body.longitude)

Answered200 == client.posted.kind = "response" /\ client.posted.status_code = 200

\* a 200 whose body is no JSON, or lacks a key the client reads
Unreadable200 ==
    /\ Answered200
    /\ \/ client.posted.json = NotJson
       \/ "inside_prison" \notin DOMAIN client.posted.json
       \/ "risk_level" \notin DOMAIN client.posted.json

FailedOpen(result) ==
    /\ result.should_block = FALSE
    /\ result.error = TRUE
    /\ result.risk_level = "UNKNOWN"

C17_ClientFailsOpen ==
    client.pc = "returned"
    => /\ client.result.should_block = TRUE
          => /\ Answered200
             /\ ~Unreadable200
             /\ client.posted.json.inside_prison = TRUE
       /\ (~Answered200 \/ Unreadable200) => FailedOpen(client.result)
       /\ ~(client.result.should_block = TRUE /\ client.result.error = TRUE)

C17_Witness ==
    /\ client.pc = "returned"
    /\ client.posted = HttpResponse(500, [error |-> "Prison data not loaded"])
    /\ client.result.reason = "geofencing_service_error"
    /\ FailedOpen(client.result)

(***************************************************************************)
(* C18: for retry = n >= 1, _execute_overpass_query makes at most n        *)
(* attempts; the first attempt that succeeds ends the call with its        *)
(* response; after the k-th failed attempt, k < n, it waits 10 * k seconds *)
(* (waits strictly growing) before the next attempt; after the n-th failed *)
(* attempt it raises that attempt's error without a wait.                  *)
(***************************************************************************)
\* the events that are posts, in order
RECURSIVE PostsOf(_)
PostsOf(events) ==
    IF events = <<>> THEN <<>>
    ELSE (IF Head(events).did = "post" THEN <<Head(events)>> ELSE <<>>) \o PostsOf(Tail(events))

\* events is post, sleep, post, sleep, ...: the k-th failed post is followed
\* by the sleep of 10 * k seconds, and nothing follows a post that succeeded
WellSpaced(events) ==
    \A i \in 1..Len(events) :
        IF i % 2 = 1
        THEN /\ events[i].did = "post"
             /\ events[i].outcome = "ok" => i = Len(events)
        ELSE /\ events[i] = Slept(10 * (i \div 2))
             /\ events[i - 1].outcome # "ok"
             /\ i > 2 => events[i].seconds > events[i - 2].seconds

C18_RetryWithBackoff ==
    (extractor # NoCall /\ extractor.retry >= 1)
    => LET events == extractor.events
           posts == PostsOf(events)
           n == extractor.retry
       IN  /\ Len(posts) <= n
           /\ WellSpaced(events)
           /\ extractor.pc = "post" => (events = <<>> \/ events[Len(events)].did = "sleep")
           /\ extractor.pc = "returned"
              => /\ events[Len(events)] = Posted("ok")
                 /\ extractor.value # None /\ ~IsRaised(extractor.value)
           /\ extractor.pc = "raised"
              => /\ Len(posts) = n
                 /\ events[Len(events)].did = "post"
                 /\ extractor.value = Raised(events[Len(events)].outcome)
                 /\ \A k \in 1..n : posts[k].outcome # "ok"
           /\ (Len(posts) = n /\ posts[n].outcome # "ok") => extractor.pc = "raised"

C18_Witness ==
    /\ extractor # NoCall /\ extractor.retry = 3
    /\ extractor.pc = "raised"
    /\ extractor.events = <<Posted("Timeout"), Slept(10), Posted("HTTPError"), Slept(20),
                             Posted("JSONDecodeError")>>
    /\ extractor.value = Raised("JSONDecodeError")

(***************************************************************************)
(* C19: a row whose 'zone' is null or empty is left out of matching: it    *)
(* matches no point, and with such a row in the loaded set check_location  *)
(* and batch_check still answer, for every point, with the verdict the     *)
(* other rows determine.                                                   *)
(***************************************************************************)
NullOrEmpty(zone) == zone.kind \in {"None", "Empty"}

\* the loaded data without the rows whose zone is null or empty
WithoutNullOrEmpty(data) ==
    LET usable(row) == ~NullOrEmpty(row.zone)
    IN  [data EXCEPT !.prisons_zones = SelectSeq(@, usable)]

\* result is the verdict of check_location over the other rows
VerdictOfTheRest(result, latitude, longitude) ==
    LET rest == PrisonGeofencing_check_location(WithoutNullOrEmpty(PRISONS_DATA), latitude, longitude)
    IN  /\ "inside_prison" \in DOMAIN result
        /\ result.inside_prison = rest.inside_prison
        /\ result.prison_info = rest.prison_info
        /\ \A i \in ZoneRows :
              (NullOrEmpty(PRISONS_DATA.prisons_zones[i].zone) /\ result.inside_prison)
              => result.prison_info # [osm_id |-> PRISONS_DATA.prisons_zones[i].osm_id]

C19_NullOrEmptyZoneIgnored ==
    (/\ Loaded /\ PRISONS_DATA.buffer_meters >= 0
     /\ \E i \in ZoneRows : NullOrEmpty(PRISONS_DATA.prisons_zones[i].zone))
    => /\ (ChecksAPoint /\ InRange(ReqLat, ReqLon))
          => /\ response.status = 200
             /\ VerdictOfTheRest(response.json, ReqLat, ReqLon)
       /\ (/\ ChecksABatch
           /\ \A k \in 1..Len(BatchItems) :
                 /\ ~Malformed(BatchItems[k])
                 /\ InRange(BatchItems[k].latitude.num, BatchItems[k].longitude.num))
          => /\ response.status = 200
             /\ Len(response.json.results) = Len(BatchItems)
             /\ \A k \in 1..Len(BatchItems) :
                   VerdictOfTheRest(response.json.results[k],
                                    BatchItems[k].latitude.num, BatchItems[k].longitude.num)

(***************************************************************************)
(* C20: zone preparation accepts a margin >= 0 only: a PrisonGeofencing    *)
(* built with a negative buffer_meters is never what is loaded, so no      *)
(* loaded row has a zone that reaches beyond its raw geometry.             *)
(***************************************************************************)
\* geometry a lies within geometry b (both in the same CRS)
Within(a, b) ==
    \/ ~HasCoords(a)
    \/ /\ HasCoords(b)
       /\ b.xmin <= a.xmin /\ a.xmax <= b.xmax
       /\ b.ymin <= a.ymin /\ a.ymax <= b.ymax

C20_NegativeMarginRejected ==
    Loaded
    => /\ PRISONS_DATA.buffer_meters >= 0
       /\ \A i \in ZoneRows :
             Within(PRISONS_DATA.prisons_metric[i].zone, PRISONS_DATA.prisons_metric[i].geometry)

(***************************************************************************)
(* C21 to C23 and C30: the features of _parse_osm_elements.                *)
(***************************************************************************)
Parsed == extractor.pc = "parsed"

(***************************************************************************)
(* C21: zone ids are unique within one zone set: no two features that      *)
(* _parse_osm_elements makes of a list of elements (nodes, ways and        *)
(* relations mixed, no element twice) have the same osm_id.                *)
(***************************************************************************)
C21_OsmIdsAreUnique ==
    (Parsed /\ Cardinality(Range(extractor.elements)) = Len(extractor.elements))
    => \A i, j \in 1..Len(extractor.gdf) :
          extractor.gdf[i].osm_id = extractor.gdf[j].osm_id => i = j

\* the element has what a feature needs: an id, and for a node its
\* coordinates, for a way a ring that makes a polygon or else a center, for
\* a relation a center
HasRing(element) ==
    /\ ~element.geometry.missing
    /\ Len(element.geometry.value) >= 4
    /\ element.geometry.value[1] = element.geometry.value[Len(element.geometry.value)]
WellFormed(element) ==
    /\ ~element.id.missing
    /\ CASE element.type = "node" -> ~element.lonlat.missing
         [] element.type = "way" -> HasRing(element) \/ ~element.center.missing
         [] OTHER -> ~element.center.missing

\* a ring given as closed that is too short to make a polygon
DegenerateRing(element) ==
    /\ ~element.geometry.missing
    /\ Len(element.geometry.value) = 3
    /\ element.geometry.value[1] = element.geometry.value[3]

\* processing the element raises
Raises(element) ==
    \/ element.id.missing
    \/ element.type = "node" /\ element.lonlat.missing
    \/ element.type = "way" /\ DegenerateRing(element)

\* the (type, id) of the elements of a list that satisfy Test, in order
KeysOf(elements, Test(_)) ==
    LET chosen == SelectSeq(elements, Test)
    IN  [i \in 1..Len(chosen) |-> <<chosen[i].type, chosen[i].id.value>>]

Count(elements, Test(_)) == Cardinality({i \in 1..Len(elements) : Test(elements[i])})

C23_MajorityMalformedFailsLoad ==
    (Parsed /\ 2 * Count(extractor.elements, Raises) > Len(extractor.elements))
    => extractor.gdf = <<>>

(***************************************************************************)
(* C30: for every way that carries a center (and an id), one feature is    *)
(* made: the polygon when the way's geometry makes one, else the center    *)
(* point, also when the ring looks closed and the polygon cannot be built  *)
(* (a closed ring of three coordinates).                                   *)
(***************************************************************************)
WayWithCenter(element) ==
    element.type = "way" /\ ~element.center.missing /\ ~element.id.missing

ExpectedOfWay(element) ==
    Feature(element.id.value, "way",
            IF HasRing(element) THEN PolygonOf(element.geometry.value)
            ELSE Point(element.center.value[1], element.center.value[2]))

C30_WayWithCenterYieldsAFeature ==
    (Parsed /\ Len(extractor.elements) = 1 /\ WayWithCenter(extractor.elements[1]))
    => extractor.gdf = <<ExpectedOfWay(extractor.elements[1])>>

(***************************************************************************)
(* C24: batch-check bounds the batch length: there is a maximum such that  *)
(* every request with a longer 'locations' list is rejected and none of    *)
(* its entries checked.  Whatever the maximum below MaxBatch, a list of    *)
(* MaxBatch entries is then rejected with no entry checked.                *)
(***************************************************************************)
C24_BatchLengthBounded ==
    (LoadedWithMargin /\ ChecksABatch /\ Len(BatchItems) = MaxBatch)
    => /\ response.status >= 400
       /\ calls = <<>>

(***************************************************************************)
(* C25: the answer to a check-location carries a transaction_id iff the    *)
(* request body carried the key, and then the request's value; the         *)
(* coordinates echoed in the result are the request's latitude and         *)
(* longitude.                                                              *)
(***************************************************************************)
C25_TransactionIdEchoed ==
    (Loaded /\ ChecksAPoint /\ response.status = 200)
    => /\ "transaction_id" \in DOMAIN response.json <=> request.body.transaction_id # JAbsent
       /\ "transaction_id" \in DOMAIN response.json
            => response.json.transaction_id = request.body.transaction_id
       /\ response.json.coordinates = Coordinates(ReqLat, ReqLon)

C25_Witness ==
    /\ Loaded /\ ChecksAPoint /\ response.status = 200
    /\ request.body.transaction_id = JNumStr(7)
    /\ response.json.transaction_id = JNumStr(7)
    /\ response.json.coordinates = Coordinates(Corner[1], Corner[2])

(***************************************************************************)
(* C26: batch-check parses every entry before it checks any: when an entry *)
(* at any position is malformed the request is answered 400 and            *)
(* check_location has been called for no entry, the valid entries before   *)
(* the malformed one included; whenever check_location has been called,    *)
(* every entry had parsed.                                                 *)
(***************************************************************************)
C26_ParsedBeforeChecked ==
    (Loaded /\ ChecksABatch)
    => /\ \A k \in 1..Len(BatchItems) :
             Malformed(BatchItems[k]) => (response.status = 400 /\ calls = <<>>)
       /\ calls # <<>> => \A k \in 1..Len(BatchItems) : ~Malformed(BatchItems[k])

C26_Witness ==
    /\ Loaded /\ ChecksABatch
    /\ Len(BatchItems) = 3
    /\ ~Malformed(BatchItems[1]) /\ ~Malformed(BatchItems[2]) /\ Malformed(BatchItems[3])
    /\ response.status = 400 /\ calls = <<>>

(***************************************************************************)
(* C27: in check-location, batch-check and nearest-prison the test of      *)
(* PRISONS_DATA comes before the validation of the body: a request with a  *)
(* missing or malformed body is answered 500 while no data is loaded and   *)
(* 400 once data is loaded.                                                *)
(***************************************************************************)
BadBatchBody(body) ==
    IF body = NoBody THEN TRUE
    ELSE IF body.locations = JAbsent THEN TRUE
    ELSE /\ body.locations.type = "list"
         /\ \E k \in 1..Len(body.locations.items) : Malformed(body.locations.items[k])

BadNearestBody(body) ==
    IF body = NoBody THEN TRUE
    ELSE \/ body.latitude = JAbsent
         \/ body.longitude = JAbsent
         \/ ~IsNumeric(body.latitude)
         \/ ~IsNumeric(body.longitude)
         \/ (body.max_distance_km # JAbsent /\ ~IsNumeric(body.max_distance_km))

BadBody ==
    \/ Served("check-location") /\ BadCheckBody(request.body)
    \/ Served("batch-check") /\ BadBatchBody(request.body)
    \/ Served("nearest-prison") /\ BadNearestBody(request.body)

C27_NotLoadedBeforeValidation ==
    BadBody
    => /\ response.status = IF Loaded THEN 400 ELSE 500
       /\ ~Loaded => response.json = [error |-> "Prison data not loaded"]

C27_Witness ==
    /\ ~Loaded
    /\ Served("nearest-prison") /\ BadNearestBody(request.body)
    /\ request.body # NoBody
    /\ response = [status |-> 500, json |-> [error |-> "Prison data not loaded"]]

(***************************************************************************)
(* C28: for every retry >= 0 and every pattern of successes and failures,  *)
(* _execute_overpass_query ends by returning the parsed JSON of an attempt *)
(* that succeeded or by raising the error of the fetch: it never returns   *)
(* without a response.                                                     *)
(***************************************************************************)
C28_ReturnsAResponseOrRaises ==
    /\ extractor.pc = "returned"
         => /\ extractor.value # None
            /\ extractor.events # <<>>
            /\ extractor.events[Len(extractor.events)] = Posted("ok")
    /\ extractor.pc = "raised" => IsRaised(extractor.value)

(***************************************************************************)
(* C29: a failed initialization leaves the service as it was: the step in  *)
(* which initialize_api raises (no file found, or PrisonGeofencing cannot  *)
(* be built) does not change PRISONS_DATA, so that after it a service      *)
(* never loaded answers 500 to its queries and a loaded one answers from   *)
(* the zone set it had.                                                    *)
(***************************************************************************)
InitHasRaised == building.stage = 4

C29_FailedInitKeepsState ==
    /\ [][(InitHasRaised' /\ ~InitHasRaised) => PRISONS_DATA' = PRISONS_DATA]_vars
    /\ []((/\ InitHasRaised /\ ~Loaded /\ frame.pc = "done"
           /\ request.endpoint \in {"check-location", "batch-check", "nearest-prison", "stats"})
          => response = [status |-> 500, json |-> [error |-> "Prison data not loaded"]])
    /\ []((InitHasRaised /\ Loaded) => Complete(PRISONS_DATA) /\ AsLoaded)

C29_Witness ==
    /\ InitHasRaised /\ building.raised = "ValueError"
    /\ Loaded
    /\ frame.pc = "done" /\ request.endpoint = "check-location"
    /\ response.status = 200
    /\ Len(frame.reads) = 2 /\ frame.reads[1] = PRISONS_DATA /\ frame.reads[2] = PRISONS_DATA
====
